---- MODULE Spec2Model ----
(***************************************************************************)
(* Link lifecycle of the URL shortener (src/src/main.rs): the create       *)
(* handler (create_short_link), the resolve handler (redirect_handler),    *)
(* the detached click write it spawns, and the links/clicks tables they    *)
(* talk to.  Strings are sequences of one-character strings so that        *)
(* len(), starts_with(), trim() and contains() are computed, not assumed.  *)
(***************************************************************************)
EXTENDS Integers, Sequences, FiniteSets, TLC

VARIABLES links, nextId, now, cr, rs, tasks, clicks

vars == <<links, nextId, now, cr, rs, tasks, clicks>>

(***************************************************************************)
(* Bounds of the model.                                                    *)
(***************************************************************************)
MaxRequests == 2
MaxTime == 1
MaxPad == 1
NumGenChars == 1

CreateIds == 1..MaxRequests
ResolveIds == 1..MaxRequests
Times == 0..MaxTime

\* Option<String> of a request field: None, or the string itself.
None == <<"None">>

\* Option<T> elsewhere (a fetched row, an error, a nullable column): the empty
\* set is None and {x} is Some(x).
Null == {}
Some(x) == {x}
Get(o) == CHOOSE x \in o : TRUE

(***************************************************************************)
(* Strings.                                                                *)
(***************************************************************************)
WhiteSpace == {" ", "\t", "\n"}

\* Bytes of one character in UTF-8 (String::len counts bytes).
Utf8Width(c) == IF c = "é" THEN 2 ELSE 1

RECURSIVE ByteLen(_)
ByteLen(s) == IF s = <<>> THEN 0 ELSE Utf8Width(Head(s)) + ByteLen(Tail(s))

StartsWith(s, pre) ==
    /\ Len(s) >= Len(pre)
    /\ SubSeq(s, 1, Len(pre)) = pre

Contains(s, pat) ==
    \E i \in 0..(Len(s) - Len(pat)) : SubSeq(s, i + 1, i + Len(pat)) = pat

RECURSIVE TrimStart(_)
TrimStart(s) ==
    IF s # <<>> /\ Head(s) \in WhiteSpace THEN TrimStart(Tail(s)) ELSE s

RECURSIVE TrimEnd(_)
TrimEnd(s) ==
    IF s # <<>> /\ s[Len(s)] \in WhiteSpace
    THEN TrimEnd(SubSeq(s, 1, Len(s) - 1))
    ELSE s

Trim(s) == TrimEnd(TrimStart(s))

RECURSIVE Pad(_)
Pad(n) == IF n = 0 THEN <<>> ELSE <<" ">> \o Pad(n - 1)

HttpPrefix == <<"h","t","t","p">>
MinUrlLen == 8

\* Request bodies: the url text between optional leading and trailing blanks.
UrlBodies ==
    { <<"h","t","t","p",":","/","/","a","b",".","c">>,
      <<"h","t","t","p",":","/","/","a">>,
      <<"h","t","t","p",":","/","/">>,
      <<"h","t","t","p","é","é">>,
      <<"h","t","t","p","s">>,
      <<"f","t","p",":","/","/","a","b",".","c">>,
      <<>> }

AllUrls ==
    { Pad(l) \o b \o Pad(t) : l \in 0..MaxPad, t \in 0..(MaxPad + 2), b \in UrlBodies }

\* The urls of the concurrent specification: one accepted, one rejected.
MainUrls ==
    { <<"h","t","t","p",":","/","/","a"," ">>,
      <<"f","t","p",":","/","/","a","b",".","c">> }

(***************************************************************************)
(* Code generator: nanoid!(8) over nanoid's default alphabet.              *)
(***************************************************************************)
CodeLenShort == 8 - 1

CodeLen == 8

SafeAlphabet ==
    <<"_","-","0","1","2","3","4","5","6","7","8","9",
      "a","b","c","d","e","f","g","h","i","j","k","l","m",
      "n","o","p","q","r","s","t","u","v","w","x","y","z",
      "A","B","C","D","E","F","G","H","I","J","K","L","M",
      "N","O","P","Q","R","S","T","U","V","W","X","Y","Z">>

AlphabetSet == { SafeAlphabet[i] : i \in 1..Len(SafeAlphabet) }

\* The generator's outcomes the model explores: one code per sampled character.
GenCodes ==
    { [i \in 1..CodeLen |-> SafeAlphabet[k]] : k \in 1..NumGenChars }

\* custom_code values of requests.
CustomCodes == { <<"a","b","c","1","2","3">> }

NeverCreated == <<"d","o","e","s","n","o","t","e","x","i","s","t">>

ResolveCodes == CustomCodes \cup GenCodes \cup {NeverCreated}

(***************************************************************************)
(* The store: the links and clicks tables behind the pool.                 *)
(***************************************************************************)
\* sqlx::Error values the store can hand back.
UniqueViolation ==
    [ variant |-> "Database",
      constraint |-> Some(<<"l","i","n","k","s","_","s","h","o","r","t","_","c","o","d","e","_","k","e","y">>),
      message |-> <<"d","u","p","l","i","c","a","t","e"," ","k","e","y"," ","v","a","l","u","e"," ",
                    "v","i","o","l","a","t","e","s"," ","u","n","i","q","u","e"," ",
                    "c","o","n","s","t","r","a","i","n","t"," ",
                    "l","i","n","k","s","_","s","h","o","r","t","_","c","o","d","e","_","k","e","y">> ]

ShuttingDown ==
    [ variant |-> "Database",
      constraint |-> Null,
      message |-> <<"t","h","e"," ","d","a","t","a","b","a","s","e"," ","s","y","s","t","e","m"," ",
                    "i","s"," ","s","h","u","t","t","i","n","g"," ","d","o","w","n">> ]

PoolTimedOut == [ variant |-> "PoolTimedOut", constraint |-> Null, message |-> <<>> ]

NoError == [ variant |-> "none", constraint |-> Null, message |-> <<>> ]

\* Failures that do not depend on the rows: of the INSERT, of the SELECT.
InsertFailures == {ShuttingDown, PoolTimedOut}
SelectFailures == {PoolTimedOut}

\* The unique constraint on links.short_code covers every row, active or not.
CodeTaken(L, code) == \E l \in L : l.short_code = code

\* A row as INSERT INTO links (short_code, original_url) leaves it.
NewRow(id, code, url) ==
    [ id |-> id, short_code |-> code, original_url |-> url,
      is_active |-> TRUE, expires_at |-> Null ]

\* What the store can answer to the INSERT ... RETURNING id.
InsertOutcomes(L, code) ==
    { [ok |-> FALSE, err |-> e] : e \in InsertFailures }
      \cup ( IF CodeTaken(L, code)
             THEN { [ok |-> FALSE, err |-> UniqueViolation] }
             ELSE { [ok |-> TRUE, err |-> NoError] } )

FindAnyLink(L, code) == { l \in L : l.short_code = code }

\* SELECT id, original_url, expires_at FROM links
\*  WHERE short_code = $1 AND is_active = true
FindActiveLink(L, code) == { l \in L : l.short_code = code /\ l.is_active }

(***************************************************************************)
(* Errors and responses.                                                   *)
(***************************************************************************)
\* impl IntoResponse for AppError
IntoResponse(kind) ==
    CASE kind = "Validation" ->
           [status |-> 400, code |-> "VALIDATION_ERROR", message |-> "invalid URL"]
      [] kind = "NotFound" ->
           [status |-> 404, code |-> "NOT_FOUND", message |-> "not found"]
      [] kind = "Conflict" ->
           [status |-> 409, code |-> "CONFLICT", message |-> "already exists"]
      [] kind = "Gone" ->
           [status |-> 410, code |-> "GONE", message |-> "link expired"]
      [] kind = "Database" ->
           [status |-> 500, code |-> "INTERNAL_ERROR", message |-> "internal error"]
      [] kind = "Internal" ->
           [status |-> 500, code |-> "INTERNAL_ERROR", message |-> "internal error"]

BaseUrl ==
    <<"h","t","t","p",":","/","/","l","o","c","a","l","h","o","s","t",":","8","0","8","0","/">>

FormatShortUrl(code) == BaseUrl \o code

Created(code) ==
    [status |-> 201, short_code |-> code, short_url |-> FormatShortUrl(code)]

TemporaryRedirect(url) == [status |-> 307, location |-> url]

NoResp == [status |-> 0]

(***************************************************************************)
(* create_short_link                                                       *)
(***************************************************************************)
\* if payload.url.len() < 8 || !payload.url.starts_with("http") -> Validation
ValidUrl(url) == ~ (ByteLen(url) < MinUrlLen \/ ~ StartsWith(url, HttpPrefix))

Untrimmed(url) == url

\* The second bind value of the INSERT: payload.url.trim()
StoredUrl(url) == Trim(url)

NeverConflict(e) == FALSE

\* The guard of the Conflict arm.
IsConflictError(e) ==
    /\ e.variant = "Database"
    /\ \/ \E c \in e.constraint :
            \/ Contains(c, <<"s","h","o","r","t","_","c","o","d","e">>)
            \/ Contains(c, <<"u","n","i","q","u","e">>)
       \/ Contains(e.message,
                   <<"u","n","i","q","u","e"," ","c","o","n","s","t","r","a","i","n","t">>)

OkReportedAsError(out) ==
    IF IsConflictError(out.err) THEN "Conflict" ELSE "Database"

AnyDatabaseErrorConflict(out) ==
    IF out.ok THEN "Ok"
    ELSE IF out.err.variant = "Database" THEN "Conflict"
    ELSE "Database"

\* match insert { Ok(_) => .., Err(Database(e)) if .. => Conflict, Err(e) => Database(e) }
MapInsert(out) ==
    IF out.ok THEN "Ok"
    ELSE IF IsConflictError(out.err) THEN "Conflict"
    ELSE "Database"

\* Requests that have arrived so far.
Arrived ==
    Cardinality({p \in CreateIds : cr[p].pc # "idle"})
      + Cardinality({r \in ResolveIds : rs[r].pc # "idle"})

IdleCreate ==
    [ pc |-> "idle", url |-> None, custom |-> None, code |-> None,
      res |-> "none", resp |-> NoResp, attempts |-> 0, taken |-> FALSE,
      err |-> NoError ]

\* A request arrives; validation and the choice of the code run up to the
\* await of the insert.
CreateStart(p, U, C) ==
    /\ cr[p].pc = "idle"
    /\ Arrived < MaxRequests
    /\ \A q \in CreateIds : q < p => cr[q].pc # "idle"
    /\ \E url \in U, custom \in C \cup {None} :
         IF ~ ValidUrl(url)
         THEN cr' = [cr EXCEPT ![p] =
                 [@ EXCEPT !.pc = "done", !.url = url, !.custom = custom,
                           !.res = "Validation",
                           !.resp = IntoResponse("Validation")]]
         ELSE \E code \in (IF custom # None THEN {custom} ELSE GenCodes) :
                cr' = [cr EXCEPT ![p] =
                  [@ EXCEPT !.pc = "insert", !.url = url, !.custom = custom,
                            !.code = code]]
    /\ UNCHANGED <<links, nextId, now, rs, tasks, clicks>>

\* The store executes the INSERT and the handler maps its result.
CreateInsert(p) ==
    /\ cr[p].pc = "insert"
    /\ \E out \in InsertOutcomes(links, cr[p].code) :
         LET res == MapInsert(out) IN
         /\ links' = IF out.ok
                     THEN links \cup {NewRow(nextId, cr[p].code, StoredUrl(cr[p].url))}
                     ELSE links
         /\ nextId' = IF out.ok THEN nextId + 1 ELSE nextId
         /\ cr' = [cr EXCEPT ![p] =
               [@ EXCEPT !.pc = "done", !.res = res,
                         !.resp = IF res = "Ok" THEN Created(cr[p].code)
                                  ELSE IntoResponse(res),
                         !.attempts = @ + 1,
                         !.taken = CodeTaken(links, cr[p].code),
                         !.err = out.err]]
    /\ UNCHANGED <<now, rs, tasks, clicks>>

(***************************************************************************)
(* redirect_handler and the click write it spawns                          *)
(***************************************************************************)
ExpiredOrNow(expires, t) == \E e \in expires : e <= t

\* if let Some(expires) = link.expires_at { if expires < Utc::now() { Gone } }
Expired(expires, t) == \E e \in expires : e < t

SpawnTwice(ts, r, id) ==
    ts \o << [owner |-> r, link_id |-> id, st |-> "pending"],
             [owner |-> r, link_id |-> id, st |-> "pending"] >>

\* tokio::spawn(async move { INSERT INTO clicks (link_id) VALUES ($1) })
Spawn(ts, r, id) == Append(ts, [owner |-> r, link_id |-> id, st |-> "pending"])

AbortOnDrop(ts, r) ==
    [ i \in 1..Len(ts) |->
        IF ts[i].owner = r /\ ts[i].st = "pending"
        THEN [ts[i] EXCEPT !.st = "aborted"] ELSE ts[i] ]

\* The JoinHandle is dropped at once: dropping the handler future or the
\* connection leaves the spawned task alone.
TasksAfterDrop(ts, r) == ts

IdleResolve ==
    [ pc |-> "idle", code |-> None, row |-> Null, seen |-> "none",
      err |-> Null, res |-> "none", resp |-> NoResp,
      cancelled |-> FALSE ]

ResolveStart(r) ==
    /\ rs[r].pc = "idle"
    /\ Arrived < MaxRequests
    /\ \A q \in ResolveIds : q < r => rs[q].pc # "idle"
    /\ \E code \in ResolveCodes :
         rs' = [rs EXCEPT ![r] = [@ EXCEPT !.pc = "lookup", !.code = code]]
    /\ UNCHANGED <<links, nextId, now, cr, tasks, clicks>>

\* The store answers the SELECT (fetch_optional): a row, no row, or an error.
ResolveLookup(r) ==
    /\ rs[r].pc = "lookup"
    /\ LET seen == IF \A l \in links : l.short_code # rs[r].code THEN "absent"
                   ELSE IF \E l \in links : l.short_code = rs[r].code /\ l.is_active
                   THEN "active"
                   ELSE "inactive"
       IN \/ \E e \in SelectFailures :
               rs' = [rs EXCEPT ![r] =
                 [@ EXCEPT !.pc = "fetched", !.err = Some(e), !.seen = seen]]
          \/ /\ FindActiveLink(links, rs[r].code) = {}
             /\ rs' = [rs EXCEPT ![r] = [@ EXCEPT !.pc = "fetched", !.seen = seen]]
          \/ \E l \in FindActiveLink(links, rs[r].code) :
               rs' = [rs EXCEPT ![r] =
                 [@ EXCEPT !.pc = "fetched", !.row = Some(l), !.seen = seen]]
    /\ UNCHANGED <<links, nextId, now, cr, tasks, clicks>>

\* The handler resumes after the await and runs to its return.
ResolveFinish(r) ==
    /\ rs[r].pc = "fetched"
    /\ LET me == rs[r]
           res == IF me.err # Null THEN "Database"
                  ELSE IF me.row = Null THEN "NotFound"
                  ELSE IF Expired(Get(me.row).expires_at, now) THEN "Gone"
                  ELSE "Redirect"
       IN /\ rs' = [rs EXCEPT ![r] =
                 [@ EXCEPT !.pc = "done", !.res = res,
                           !.resp = IF res = "Redirect"
                                    THEN TemporaryRedirect(Get(me.row).original_url)
                                    ELSE IntoResponse(res)]]
          /\ tasks' = IF res = "Redirect" THEN Spawn(tasks, r, Get(me.row).id) ELSE tasks
    /\ UNCHANGED <<links, nextId, now, cr, clicks>>

\* The caller goes away: while the handler is suspended at the await its
\* future is dropped; after the return only the connection is.
CallerCancel(r) ==
    /\ rs[r].pc \in {"lookup", "fetched", "done"}
    /\ ~ rs[r].cancelled
    /\ rs' = [rs EXCEPT ![r] =
          [@ EXCEPT !.cancelled = TRUE,
                    !.pc = IF @ = "done" THEN "done" ELSE "cancelled"]]
    /\ tasks' = TasksAfterDrop(tasks, r)
    /\ UNCHANGED <<links, nextId, now, cr, clicks>>

\* The spawned task runs its INSERT INTO clicks; an error is logged.
ClickWrite(i) ==
    /\ i \in 1..Len(tasks)
    /\ tasks[i].st = "pending"
    /\ \/ /\ tasks' = [tasks EXCEPT ![i].st = "recorded"]
          /\ clicks' = Append(clicks, tasks[i].link_id)
       \/ /\ tasks' = [tasks EXCEPT ![i].st = "failed"]
          /\ clicks' = clicks
    /\ UNCHANGED <<links, nextId, now, cr, rs>>

(***************************************************************************)
(* Environment: the clock and the external processes that deactivate a     *)
(* link or give it an expiry.                                              *)
(***************************************************************************)
Tick ==
    /\ now < MaxTime
    /\ now' = now + 1
    /\ UNCHANGED <<links, nextId, cr, rs, tasks, clicks>>

Deactivate ==
    /\ \E l \in links :
         /\ l.is_active
         /\ links' = (links \ {l}) \cup {[l EXCEPT !.is_active = FALSE]}
    /\ UNCHANGED <<nextId, now, cr, rs, tasks, clicks>>

SetExpiry ==
    /\ \E l \in links, t \in Times :
         /\ l.expires_at = Null
         /\ links' = (links \ {l}) \cup {[l EXCEPT !.expires_at = Some(t)]}
    /\ UNCHANGED <<nextId, now, cr, rs, tasks, clicks>>

(***************************************************************************)
(* Specifications.                                                         *)
(***************************************************************************)
Init ==
    /\ links = {}
    /\ nextId = 1
    /\ now = 0
    /\ cr = [p \in CreateIds |-> IdleCreate]
    /\ rs = [r \in ResolveIds |-> IdleResolve]
    /\ tasks = <<>>
    /\ clicks = <<>>

\* A request spawns at most one task.
TaskIds == 1..MaxRequests

Next ==
    \/ \E p \in CreateIds : CreateStart(p, MainUrls, CustomCodes)
    \/ \E p \in CreateIds : CreateInsert(p)
    \/ \E r \in ResolveIds : ResolveStart(r)
    \/ \E r \in ResolveIds : ResolveLookup(r)
    \/ \E r \in ResolveIds : ResolveFinish(r)
    \/ \E r \in ResolveIds : CallerCancel(r)
    \/ \E i \in TaskIds : ClickWrite(i)
    \/ Tick
    \/ Deactivate
    \/ SetExpiry

Spec == Init /\ [][Next]_vars

\* One create and one resolve, the url drawn from the whole input set.
UrlNext ==
    \/ CreateStart(1, AllUrls, {})
    \/ CreateInsert(1)
    \/ ResolveStart(1)
    \/ ResolveLookup(1)
    \/ ResolveFinish(1)

UrlSpec == Init /\ [][UrlNext]_vars

\* The requests, the callers going away and the click writes, with the rows
\* otherwise left alone.
ClickNext ==
    \/ \E p \in CreateIds : CreateStart(p, MainUrls, CustomCodes)
    \/ \E p \in CreateIds : CreateInsert(p)
    \/ \E r \in ResolveIds : ResolveStart(r)
    \/ \E r \in ResolveIds : ResolveLookup(r)
    \/ \E r \in ResolveIds : ResolveFinish(r)
    \/ \E r \in ResolveIds : CallerCancel(r)
    \/ \E i \in TaskIds : ClickWrite(i)

\* The runtime keeps polling a spawned task until it finishes.
FairSpec ==
    Init /\ [][ClickNext]_vars /\ \A i \in TaskIds : WF_vars(ClickWrite(i))

(***************************************************************************)
(* Properties.                                                             *)
(***************************************************************************)
TasksOf(r) == { i \in 1..Len(tasks) : tasks[i].owner = r }

Inserted(p) == cr[p].pc = "done" /\ cr[p].attempts > 0

\* C1: no two link rows share a short_code; among the creates that use one
\* code at most one succeeds; a create whose insert meets an existing row
\* with its code (active or not) adds nothing and returns Conflict (Database
\* only when the store itself failed).
C1_UniqueShortCode ==
    /\ \A l1 \in links, l2 \in links : l1.short_code = l2.short_code => l1 = l2
    /\ \A p \in CreateIds, q \in CreateIds :
         (cr[p].res = "Ok" /\ cr[q].res = "Ok" /\ cr[p].code = cr[q].code) => p = q
    /\ \A p \in CreateIds :
         (Inserted(p) /\ cr[p].taken) =>
            /\ cr[p].res \in {"Conflict", "Database"}
            /\ cr[p].err \notin InsertFailures => cr[p].res = "Conflict"
            /\ cr[p].res = "Conflict" => cr[p].resp = IntoResponse("Conflict")

C1_Witness ==
    \E p \in CreateIds, q \in CreateIds :
       /\ cr[p].res = "Ok" /\ cr[q].res = "Conflict"
       /\ cr[p].code = cr[q].code
       /\ \E l \in links : l.short_code = cr[q].code /\ ~ l.is_active

\* C2 as stated: the redirect target of a later resolve is the url passed to
\* create, character for character.
C2_ExactUrl ==
    \A p \in CreateIds, r \in ResolveIds :
       (cr[p].res = "Ok" /\ rs[r].res = "Redirect" /\ rs[r].code = cr[p].code)
          => rs[r].resp.location = cr[p].url

\* C2 amended: the redirect target is the url passed to create with the
\* surrounding white space trimmed off, and hence the url itself whenever it
\* ends in no white space.
C2_TrimmedUrl ==
    \A p \in CreateIds, r \in ResolveIds :
       (cr[p].res = "Ok" /\ rs[r].res = "Redirect" /\ rs[r].code = cr[p].code)
          => /\ rs[r].resp = TemporaryRedirect(Trim(cr[p].url))
             /\ cr[p].url[Len(cr[p].url)] \notin WhiteSpace
                   => rs[r].resp.location = cr[p].url

C2_Witness ==
    \E p \in CreateIds, r \in ResolveIds :
       /\ cr[p].res = "Ok" /\ rs[r].res = "Redirect" /\ rs[r].code = cr[p].code
       /\ cr[p].url # Trim(cr[p].url)
       /\ rs[r].resp.location = Trim(cr[p].url)

\* C3: a resolve whose lookup finds no row with the code, or only an inactive
\* one (whatever its expires_at), returns NotFound with one and the same
\* response and schedules no click write.
C3_InactiveAsAbsent ==
    /\ \A r \in ResolveIds :
         (rs[r].seen \in {"absent", "inactive"} /\ rs[r].err = Null) =>
            /\ rs[r].row = Null
            /\ rs[r].pc = "done" =>
                 /\ rs[r].res = "NotFound"
                 /\ rs[r].resp = [status |-> 404, code |-> "NOT_FOUND",
                                  message |-> "not found"]
                 /\ TasksOf(r) = {}
    /\ \A r \in ResolveIds, q \in ResolveIds :
         ( /\ rs[r].pc = "done" /\ rs[q].pc = "done"
           /\ rs[r].err = Null /\ rs[q].err = Null
           /\ rs[r].seen = "absent" /\ rs[q].seen = "inactive" )
            => rs[r].resp = rs[q].resp

C3_Witness ==
    \E r \in ResolveIds :
       /\ rs[r].pc = "done" /\ rs[r].seen = "inactive" /\ rs[r].res = "NotFound"
       /\ \E l \in links :
            l.short_code = rs[r].code /\ ~ l.is_active /\ l.expires_at # Null

\* C4: when the handler resumes with an active row, it returns Gone exactly
\* when expires_at is present and strictly earlier than the time it reads;
\* Gone is neither NotFound nor a redirect.
C4_GoneIffExpired ==
    [][ \A r \in ResolveIds :
          ( /\ rs[r].pc = "fetched" /\ rs'[r].pc = "done"
            /\ rs[r].err = Null /\ rs[r].row # Null )
          => LET exp == Get(rs[r].row).expires_at IN
             /\ rs'[r].res = "Gone" <=> (exp # Null /\ \A e \in exp : e < now)
             /\ rs'[r].res = "Gone" =>
                  /\ rs'[r].resp = [status |-> 410, code |-> "GONE",
                                    message |-> "link expired"]
                  /\ tasks' = tasks
             /\ rs'[r].res # "Gone" => rs'[r].res = "Redirect" ]_vars

C4_Witness ==
    \E r \in ResolveIds :
       /\ rs[r].res = "Gone"
       /\ Get(rs[r].row).is_active
       /\ \E e \in Get(rs[r].row).expires_at : e < now

\* C5: a resolve that returns a redirect has scheduled exactly one click
\* write, for the id of the row it read; any other resolve has scheduled
\* none; the redirect stands whatever the state of that write.
C5_OneClickPerRedirect ==
    \A r \in ResolveIds :
       /\ rs[r].res = "Redirect" =>
            /\ Cardinality(TasksOf(r)) = 1
            /\ \A i \in TasksOf(r) : tasks[i].link_id = Get(rs[r].row).id
            /\ rs[r].resp = TemporaryRedirect(Get(rs[r].row).original_url)
       /\ rs[r].res # "Redirect" => TasksOf(r) = {}
       /\ rs[r].res \in {"NotFound", "Gone", "Database"} =>
            rs[r].resp = IntoResponse(rs[r].res)

C5_Witness ==
    \E r \in ResolveIds :
       /\ rs[r].pc = "done" /\ rs[r].res = "Redirect"
       /\ \E i \in TasksOf(r) : tasks[i].st = "failed"
       /\ clicks = <<>>

\* C6 as stated: create ends in Validation, without an insert, exactly when
\* the trimmed url is shorter than 8 or does not begin with "http"; every
\* other url reaches the insert.
C6_ValidationOnTrimmed ==
    \A p \in CreateIds :
       cr[p].pc # "idle" =>
          ( (cr[p].res = "Validation" /\ cr[p].attempts = 0)
              <=> ( ByteLen(Trim(cr[p].url)) < 8
                      \/ ~ StartsWith(Trim(cr[p].url), <<"h","t","t","p">>) ) )

\* C7: create returns Conflict exactly when its one insert failed on the
\* uniqueness of short_code; any other failure of the insert is returned as
\* Database with the message "internal error"; the insert runs at most once.
C7_ConflictIffUniqueViolation ==
    \A p \in CreateIds :
       /\ cr[p].attempts <= 1
       /\ cr[p].res = "Conflict" <=>
            (Inserted(p) /\ cr[p].taken /\ cr[p].err = UniqueViolation)
       /\ (Inserted(p) /\ cr[p].err \in InsertFailures) =>
            /\ cr[p].res = "Database"
            /\ cr[p].resp = [status |-> 500, code |-> "INTERNAL_ERROR",
                             message |-> "internal error"]
       /\ cr[p].res = "Database" => (Inserted(p) /\ cr[p].err \in InsertFailures)

C7_Witness ==
    \E p \in CreateIds, q \in CreateIds :
       /\ cr[p].res = "Ok"
       /\ cr[q].res = "Conflict" /\ cr[q].err = UniqueViolation
       /\ cr[q].attempts = 1

\* C8 as stated: with a valid url and no custom code, create succeeds with a
\* code of 8 alphabet characters in every store state (a failing store set
\* aside).
C8_AlwaysSucceeds ==
    \A p \in CreateIds :
       ( /\ Inserted(p) /\ cr[p].custom = None
         /\ cr[p].err \notin InsertFailures )
       => /\ cr[p].res = "Ok"
          /\ Len(cr[p].resp.short_code) = 8
          /\ \A i \in 1..8 : cr[p].resp.short_code[i] \in AlphabetSet

\* C8 amended: with a valid url and no custom code, the code create uses has
\* exactly 8 characters of the generator's alphabet; create succeeds with it
\* unless a row with that code exists already (Conflict) or the store fails
\* (Database).
C8_GeneratedCode ==
    \A p \in CreateIds :
       (cr[p].pc \in {"insert", "done"} /\ cr[p].custom = None /\ cr[p].res # "Validation")
       => /\ Len(cr[p].code) = 8
          /\ \A i \in 1..Len(cr[p].code) : cr[p].code[i] \in AlphabetSet
          /\ cr[p].pc = "done" =>
               /\ cr[p].res \in {"Ok", "Conflict", "Database"}
               /\ cr[p].res = "Ok" <=> (~ cr[p].taken /\ cr[p].err \notin InsertFailures)
               /\ cr[p].res = "Ok" => cr[p].resp.short_code = cr[p].code
               /\ cr[p].res = "Conflict" => cr[p].taken

C8_Witness ==
    \E p \in CreateIds, q \in CreateIds :
       /\ cr[p].custom = None /\ cr[p].res = "Ok"
       /\ cr[q].custom = None /\ cr[q].res = "Conflict"

\* C9: a step of create or resolve never changes or removes a row; a create
\* that succeeds adds exactly one row and schedules or records no click, a
\* create that returns an error adds none, and a step of resolve or of a
\* click write leaves the table as it is.
C9_Frame ==
    [][ /\ \A p \in CreateIds :
             cr'[p] # cr[p] =>
                /\ links \subseteq links'
                /\ tasks' = tasks /\ clicks' = clicks
                /\ IF cr'[p].res = "Ok"
                   THEN Cardinality(links') = Cardinality(links) + 1
                   ELSE links' = links
        /\ (rs' # rs \/ tasks' # tasks \/ clicks' # clicks) => links' = links ]_vars

C9_Witness ==
    /\ \E p \in CreateIds : cr[p].res = "Ok"
    /\ \E p \in CreateIds : cr[p].res = "Conflict"
    /\ Cardinality(links) = 1
    /\ tasks = <<>> /\ clicks = <<>>

\* C10: a scheduled click write is never removed or aborted, by a caller
\* going away or by anything else, and under fair scheduling it completes:
\* recorded, or failed and logged.
C10_ClickWriteCompletes ==
    /\ \A i \in TaskIds :
         (i <= Len(tasks) /\ tasks[i].st = "pending")
            ~> (i <= Len(tasks) /\ tasks[i].st \in {"recorded", "failed"})
    /\ [][ \A i \in 1..Len(tasks) :
             tasks[i].st = "pending" =>
                /\ i <= Len(tasks')
                /\ tasks'[i].st \in {"pending", "recorded", "failed"} ]_vars

C10_Witness ==
    \E i \in 1..Len(tasks) :
       /\ tasks[i].st \in {"recorded", "failed"}
       /\ rs[tasks[i].owner].cancelled
====
